---- MODULE Spec2Model ----
(***************************************************************************)
(* hackerpet: a client library for the hackerpet hub's local JSON API.     *)
(*                                                                         *)
(* The model covers hackerpet/data_types.py (the enumerated value parsers, *)
(* MaxKibbles, Schedule, Status.from_json), hackerpet/exceptions.py and    *)
(* the command methods of hackerpet/hackerpet.py.                          *)
(*                                                                         *)
(* A behaviour is one call: Init draws the operation and its argument,     *)
(* the operation's action runs it and records the outcome in ret (a        *)
(* returned value or a raised exception) and the HTTP requests it handed   *)
(* to the session in sent.  status() and the setters that only post a      *)
(* value run in steps, interleaved with the hub and the network, so that   *)
(* the attempts of the retrying session and the arrival of the response    *)
(* are visible.  A Status returned by Status.from_json can afterwards be   *)
(* assigned to, and src/src/hackerpet/__init__.py, the older single-module *)
(* copy of the library, is modelled where it differs.                      *)
(*                                                                         *)
(* A Python str is a sequence of one-character strings.  Two characters    *)
(* outside ASCII are written by name: "sup2" is U+00B2 SUPERSCRIPT TWO and *)
(* "ar2" is U+0662 ARABIC-INDIC DIGIT TWO.                                 *)
(***************************************************************************)
EXTENDS Integers, Sequences, FiniteSets, TLC

VARIABLES
    op,         \* the operation called
    arg,        \* its argument
    ret,        \* its outcome: Pending, a value returned or an exception raised
    sent,       \* the requests handed to the session
    last,       \* the outcome of the latest operation on a Status already built
    session,    \* self.session of the Hackerpet
    pc,         \* where the coroutine of a Hackerpet operation stands
    attempt,    \* the request attempts the session has made for it
    net,        \* the state of the attempt on the wire
    parsed      \* the calls of Status.from_json the operation has made

netvars == <<session, pc, attempt, net, parsed>>

vars == <<op, arg, ret, sent, last, netvars>>

(***************************************************************************)
(* Bounds of the model.                                                    *)
(***************************************************************************)
\* longest string handed to HubMode.from_int_str / Game.from_int_str
MaxIntStrLen == 3
\* most fragments concatenated into a hub status message
MaxStatusParts == 3
\* most fragments concatenated into a timezone wire string
MaxTzParts == 3

\* the most attempts a RetryClient passed to Hackerpet allows
MaxClientAttempts == 4

(***************************************************************************)
(* Python values and outcomes.                                             *)
(***************************************************************************)
PyStr(chars) == [t |-> "str", s |-> chars, n |-> 0]
PyInt(i) == [t |-> "int", s |-> <<>>, n |-> i]
PyNone == [t |-> "None", s |-> <<>>, n |-> 0]

\* bool(x) for the values above
Truthy(x) ==
    CASE x.t = "str" -> x.s # <<>>
      [] x.t = "int" -> x.n # 0
      [] OTHER -> FALSE

Pending == [kind |-> "pending"]
Ok(v) == [kind |-> "ok", value |-> v]
\* a raised exception: its class, the arguments its message is built from and
\* the statement of Status.from_json it passed through ("" outside from_json)
Raise(exc, cls, v) == [kind |-> "raise", exc |-> exc, cls |-> cls, value |-> v, at |-> ""]

IllegalValue(cls, value_provided) == Raise("IllegalValue", cls, value_provided)

OutOfRange(name, lower, upper, found) ==
    [kind |-> "raise", exc |-> "OutOfRange", cls |-> name, value |-> PyInt(found),
     at |-> "", lower |-> lower, upper |-> upper]

\* the attributes class OutOfRange defines
OutOfRangeAttrs == {"message", "__init__", "test_range"}

\* both comparisons made strict the wrong way: the bounds excluded
test_range_exclusive(lower, upper, found) == found <= lower \/ found >= upper

\* OutOfRange.test_range: TRUE when it raises
test_range(lower, upper, found) == found < lower \/ found > upper

\* OutOfRange.test_range(name, lower, upper, found): raises or returns None
OutOfRange_test_range(name, lower, upper, found) ==
    IF test_range(lower, upper, found)
    THEN OutOfRange(name, lower, upper, found)
    ELSE Ok(PyNone)

(***************************************************************************)
(* Characters and the str / int built-ins the parsers call.                *)
(***************************************************************************)
AsciiDigits == {"0", "1", "2", "3", "4", "5", "6", "7", "8", "9"}

\* Unicode category Nd: what int() and str.isdecimal() take as a digit
DecimalChars == AsciiDigits \cup {"ar2"}

\* str.isdigit() also takes digits that are not decimal (superscripts)
DigitChars == DecimalChars \cup {"sup2"}

DigitValue(c) ==
    CASE c = "0" -> 0 [] c = "1" -> 1 [] c = "2" -> 2 [] c = "3" -> 3
      [] c = "4" -> 4 [] c = "5" -> 5 [] c = "6" -> 6 [] c = "7" -> 7
      [] c = "8" -> 8 [] c = "9" -> 9 [] c = "ar2" -> 2

\* str.isdigit(): non-empty and every character a digit
isdigit(str) == str # <<>> /\ \A i \in 1..Len(str) : str[i] \in DigitChars

RECURSIVE DecimalValue(_)
\* the base-10 value of a string of decimal digits
DecimalValue(str) ==
    IF str = <<>> THEN 0
    ELSE 10 * DecimalValue(SubSeq(str, 1, Len(str) - 1)) + DigitValue(str[Len(str)])

\* int(str) for a str that passed isdigit(): ValueError unless all decimal
int(str) ==
    IF \A i \in 1..Len(str) : str[i] \in DecimalChars
    THEN Ok(DecimalValue(str))
    ELSE Raise("ValueError", "int", PyStr(str))

\* needle in hay
Contains(hay, needle) ==
    \E i \in 1..(Len(hay) - Len(needle) + 1) :
        SubSeq(hay, i, i + Len(needle) - 1) = needle

RECURSIVE Concat(_)
\* "".join(parts)
Concat(parts) == IF parts = <<>> THEN <<>> ELSE Head(parts) \o Concat(Tail(parts))

\* all sequences over S of length 0..n
SeqsUpTo(S, n) == UNION {[1..k -> S] : k \in 0..n}

(***************************************************************************)
(* HubMode                                                                 *)
(***************************************************************************)
HubModeNames == <<"STAY_OFF", "STAY_ON", "SCHEDULED">>

HubModeMember(v) == [type |-> "HubMode", name |-> HubModeNames[v + 1], value |-> v]

SCHEDULED == HubModeMember(2)

HubMode_missing(value) == IllegalValue("HubMode", value)

\* HubMode(value): the member with that value, else _missing_
HubMode(v) ==
    IF v \in 0..(Len(HubModeNames) - 1) THEN Ok(HubModeMember(v))
    ELSE HubMode_missing(PyInt(v))

HubMode_from_int_str(mode_str) ==
    IF ~isdigit(mode_str) THEN HubMode_missing(PyStr(mode_str))
    ELSE LET i == int(mode_str) IN
         IF i.kind = "raise" THEN i ELSE HubMode(i.value)

(***************************************************************************)
(* Game and GameTransitioning                                              *)
(***************************************************************************)
GameNames == <<"GAME0", "GAME1", "GAME2", "GAME3", "GAME4", "GAME5",
               "GAME6", "GAME7", "GAME8", "GAME9", "GAME10", "GAME11">>

GameMember(v) == [type |-> "Game", name |-> GameNames[v + 1], value |-> v]

Game_missing(value) == IllegalValue("Game", value)

Game(v) ==
    IF v \in 0..(Len(GameNames) - 1) THEN Ok(GameMember(v))
    ELSE Game_missing(PyInt(v))

Game_from_int_str(game_str) ==
    IF ~isdigit(game_str) THEN Game_missing(PyStr(game_str))
    ELSE LET i == int(game_str) IN
         IF i.kind = "raise" THEN i ELSE Game(i.value)

GameTransitioning(prev_game, next_game) ==
    [type |-> "GameTransitioning", prev |-> prev_game, next |-> next_game,
     value |-> next_game.value]

(***************************************************************************)
(* HubStatus                                                               *)
(***************************************************************************)
HubStatusMember(name) == [type |-> "HubStatus", name |-> name]

HubStatus_missing(value) == IllegalValue("HubStatus", value)

YourHubIsWorking ==
    <<"Y", "o", "u", "r", " ", "h", "u", "b", " ", "i", "s", " ",
      "w", "o", "r", "k", "i", "n", "g">>
OutOfFood == <<"O", "u", "t", " ", "o", "f", " ", "f", "o", "o", "d">>
PlatterIsJammed ==
    <<"P", "l", "a", "t", "t", "e", "r", " ", "i", "s", " ", "j", "a", "m", "m", "e", "d">>
SingulatorIsJammed ==
    <<"S", "i", "n", "g", "u", "l", "a", "t", "o", "r", " ", "i", "s", " ",
      "j", "a", "m", "m", "e", "d">>
DomeIsRemoved ==
    <<"D", "o", "m", "e", " ", "i", "s", " ", "r", "e", "m", "o", "v", "e", "d">>

\* the first two branches in the other order
HubStatus_from_status_swapped(status) ==
    IF Contains(status, OutOfFood) THEN Ok(HubStatusMember("EMPTY"))
    ELSE IF Contains(status, YourHubIsWorking) THEN Ok(HubStatusMember("PLAYING"))
    ELSE IF Contains(status, PlatterIsJammed) THEN Ok(HubStatusMember("PLATTER_JAMMED"))
    ELSE IF Contains(status, SingulatorIsJammed) THEN Ok(HubStatusMember("POD_JAMMED"))
    ELSE IF Contains(status, DomeIsRemoved) THEN Ok(HubStatusMember("DOME_REMOVED"))
    ELSE HubStatus_missing(PyStr(status))

HubStatus_from_status(status) ==
    IF Contains(status, YourHubIsWorking) THEN Ok(HubStatusMember("PLAYING"))
    ELSE IF Contains(status, OutOfFood) THEN Ok(HubStatusMember("EMPTY"))
    ELSE IF Contains(status, PlatterIsJammed) THEN Ok(HubStatusMember("PLATTER_JAMMED"))
    ELSE IF Contains(status, SingulatorIsJammed) THEN Ok(HubStatusMember("POD_JAMMED"))
    ELSE IF Contains(status, DomeIsRemoved) THEN Ok(HubStatusMember("DOME_REMOVED"))
    ELSE HubStatus_missing(PyStr(status))

(***************************************************************************)
(* HubState                                                                *)
(***************************************************************************)
Standby == <<"S", "t", "a", "n", "d", "b", "y">>
Active == <<"A", "c", "t", "i", "v", "e">>

HubStateMember(name, v) == [type |-> "HubState", name |-> name, value |-> v]

HubState_missing(value) == IllegalValue("HubState", value)

\* HubState(value): the member with exactly that value, else _missing_
HubState(v) ==
    IF v = Standby THEN Ok(HubStateMember("STANDBY", v))
    ELSE IF v = Active THEN Ok(HubStateMember("ACTIVE", v))
    ELSE HubState_missing(PyStr(v))

(***************************************************************************)
(* MaxKibbles                                                              *)
(***************************************************************************)
MaxKibbles(limit) ==
    [type |-> "MaxKibbles", limit |-> limit,
     value |-> IF Truthy(limit) THEN limit ELSE PyInt(0)]

\* MaxKibbles.__str__: TRUE when it renders "no limit"
MaxKibbles_str_no_limit(mk) ==
    (mk.limit.t = "int" /\ mk.limit.n = 0) \/ mk.limit.t = "None"

(***************************************************************************)
(* Schedule                                                                *)
(***************************************************************************)
\* datetime.time(hour, minute, second)
Time(h, m, s) == [t |-> "time", hour |-> h, minute |-> m, second |-> s]

Schedule(weekday_from, weekday_to, weekend_from, weekend_to) ==
    [type |-> "Schedule", weekday_from |-> weekday_from, weekday_to |-> weekday_to,
     weekend_from |-> weekend_from, weekend_to |-> weekend_to]

DigitChar(d) ==
    CASE d = 0 -> "0" [] d = 1 -> "1" [] d = 2 -> "2" [] d = 3 -> "3" [] d = 4 -> "4"
      [] d = 5 -> "5" [] d = 6 -> "6" [] d = 7 -> "7" [] d = 8 -> "8" [] d = 9 -> "9"

\* strftime's zero-padded two-digit field (%H, %M, %S)
TwoDigits(n) == <<DigitChar(n \div 10), DigitChar(n % 10)>>

\* tme.strftime("%H:%S")
Schedule_hm_format(tme) == TwoDigits(tme.hour) \o <<":">> \o TwoDigits(tme.second)

KeyError(key) == Raise("KeyError", "dict", PyStr(<<key>>))

\* weekend_to read from weekday_to
Schedule_from_json_weekday_to(payload) ==
    IF "weekday_from" \notin DOMAIN payload THEN KeyError("weekday_from")
    ELSE IF "weekday_to" \notin DOMAIN payload THEN KeyError("weekday_to")
    ELSE IF "weekend_from" \notin DOMAIN payload THEN KeyError("weekend_from")
    ELSE IF "weekend_to" \notin DOMAIN payload THEN KeyError("weekend_to")
    ELSE Ok(Schedule(payload.weekday_from, payload.weekday_to,
                     payload.weekend_from, payload.weekday_to))

\* the four payload[...] lookups, in order, then cls(...)
Schedule_from_json(payload) ==
    IF "weekday_from" \notin DOMAIN payload THEN KeyError("weekday_from")
    ELSE IF "weekday_to" \notin DOMAIN payload THEN KeyError("weekday_to")
    ELSE IF "weekend_from" \notin DOMAIN payload THEN KeyError("weekend_from")
    ELSE IF "weekend_to" \notin DOMAIN payload THEN KeyError("weekend_to")
    ELSE Ok(Schedule(payload.weekday_from, payload.weekday_to,
                     payload.weekend_from, payload.weekend_to))

\* A JSON text is a sequence of tokens: punctuation (with the whitespace the
\* separator carries), object keys and string literals.
Punct(p) == [tok |-> p, name |-> "", s |-> <<>>]
JKey(k) == [tok |-> "key", name |-> k, s |-> <<>>]
JStr(chars) == [tok |-> "str", name |-> "", s |-> chars]

RECURSIVE json_members(_, _, _)
json_members(pairs, item_sep, key_sep) ==
    IF pairs = <<>> THEN <<>>
    ELSE <<JKey(pairs[1][1]), Punct(key_sep), JStr(pairs[1][2])>>
         \o (IF Len(pairs) > 1 THEN <<Punct(item_sep)>> ELSE <<>>)
         \o json_members(Tail(pairs), item_sep, key_sep)

\* json.dumps(obj, separators=(item_sep, key_sep)) for a dict of str -> str
json_dumps(pairs, item_sep, key_sep) ==
    <<Punct("{")>> \o json_members(pairs, item_sep, key_sep) \o <<Punct("}")>>

Schedule_payload(self) ==
    json_dumps(<< <<"weekday_from", Schedule_hm_format(self.weekday_from)>>,
                  <<"weekday_to", Schedule_hm_format(self.weekday_to)>>,
                  <<"weekend_from", Schedule_hm_format(self.weekend_from)>>,
                  <<"weekend_to", Schedule_hm_format(self.weekend_to)>> >>,
               ",", ":")

\* json.loads of a text json_dumps produced: the dict it denotes
json_loads(text) ==
    LET keyAt == {i \in 1..Len(text) : text[i].tok = "key"}
    IN  [k \in {text[i].name : i \in keyAt} |->
            PyStr(text[(CHOOSE i \in keyAt : text[i].name = k) + 2].s)]

(***************************************************************************)
(* datetime.strptime(s, "%a %b %d %H:%M:%S %Y")                            *)
(*                                                                         *)
(* The time wire string is kept as its seven fields, in the order of the   *)
(* format: weekday, month, day, hour, minute, second, year.                *)
(***************************************************************************)
WeekdayAbbr ==
    {<<"M", "o", "n">>, <<"T", "u", "e">>, <<"W", "e", "d">>, <<"T", "h", "u">>,
     <<"F", "r", "i">>, <<"S", "a", "t">>, <<"S", "u", "n">>}

MonthAbbr ==
    << <<"J", "a", "n">>, <<"F", "e", "b">>, <<"M", "a", "r">>, <<"A", "p", "r">>,
       <<"M", "a", "y">>, <<"J", "u", "n">>, <<"J", "u", "l">>, <<"A", "u", "g">>,
       <<"S", "e", "p">>, <<"O", "c", "t">>, <<"N", "o", "v">>, <<"D", "e", "c">> >>

\* a numeric directive: lo..hi digits, value within min..max
NumField(str, lo, hi, min, max) ==
    /\ Len(str) \in lo..hi
    /\ \A i \in 1..Len(str) : str[i] \in AsciiDigits
    /\ DecimalValue(str) \in min..max

IsLeap(y) == y % 4 = 0 /\ (y % 100 # 0 \/ y % 400 = 0)

DaysInMonth(y, m) ==
    IF m = 2 THEN (IF IsLeap(y) THEN 29 ELSE 28)
    ELSE IF m \in {4, 6, 9, 11} THEN 30 ELSE 31

strptime(f) ==
    LET bad == Raise("ValueError", "datetime", PyStr(Concat(f)))
        months == {i \in 1..Len(MonthAbbr) : MonthAbbr[i] = f[2]}
    IN  IF /\ f[1] \in WeekdayAbbr
           /\ months # {}
           /\ NumField(f[3], 1, 2, 1, 31)
           /\ NumField(f[4], 1, 2, 0, 23)
           /\ NumField(f[5], 1, 2, 0, 59)
           /\ NumField(f[6], 1, 2, 0, 61)
           /\ NumField(f[7], 4, 4, 0, 9999)
        THEN LET y == DecimalValue(f[7])
                 m == CHOOSE i \in months : TRUE
                 d == DecimalValue(f[3])
                 sec == DecimalValue(f[6])
             IN  \* datetime(...) checks the date and the second
                 IF y >= 1 /\ d <= DaysInMonth(y, m) /\ sec <= 59
                 THEN Ok([type |-> "datetime", year |-> y, month |-> m, day |-> d,
                          hour |-> DecimalValue(f[4]), minute |-> DecimalValue(f[5]),
                          second |-> sec])
                 ELSE bad
        ELSE bad

(***************************************************************************)
(* float(str) and int(float), for strings over TzAlphabet (no exponent, no *)
(* underscore): surrounding blanks, a sign, then inf, infinity, nan or a    *)
(* decimal literal with at least one digit.                                *)
(***************************************************************************)
RECURSIVE lstrip(_)
lstrip(str) == IF str # <<>> /\ Head(str) = " " THEN lstrip(Tail(str)) ELSE str

RECURSIVE rstrip(_)
rstrip(str) ==
    IF str # <<>> /\ str[Len(str)] = " " THEN rstrip(SubSeq(str, 1, Len(str) - 1)) ELSE str

Float(fk, neg, ip) == [fk |-> fk, neg |-> neg, ip |-> ip]

float(str) ==
    LET b == rstrip(lstrip(str))
        signed == b # <<>> /\ b[1] \in {"+", "-"}
        neg == b # <<>> /\ b[1] = "-"
        u == IF signed THEN Tail(b) ELSE b
        dots == {i \in 1..Len(u) : u[i] = "."}
        dot == IF dots = {} THEN Len(u) + 1 ELSE CHOOSE i \in dots : TRUE
    IN  IF u \in {<<"i", "n", "f">>, <<"i", "n", "f", "i", "n", "i", "t", "y">>}
        THEN Ok(Float("inf", neg, <<>>))
        ELSE IF u = <<"n", "a", "n">> THEN Ok(Float("nan", neg, <<>>))
        ELSE IF /\ Cardinality(dots) <= 1
                /\ \A i \in 1..Len(u) : u[i] \in AsciiDigits \cup {"."}
                /\ Len(u) > Cardinality(dots)
        THEN Ok(Float("finite", neg, SubSeq(u, 1, dot - 1)))
        ELSE Raise("ValueError", "float", PyStr(str))

\* int(x) for a float x: truncation toward zero
trunc(x) ==
    CASE x.fk = "inf" -> Raise("OverflowError", "int", PyStr(<<>>))
      [] x.fk = "nan" -> Raise("ValueError", "int", PyStr(<<>>))
      [] OTHER -> Ok(IF x.neg THEN 0 - DecimalValue(x.ip) ELSE DecimalValue(x.ip))

(***************************************************************************)
(* Status                                                                  *)
(***************************************************************************)
StatusFields ==
    {"time", "hub_mode", "game", "hub_state", "max_kibbles", "timezone_offset", "schedule"}

Status(tme, hub_mode, game, hub_state, max_kibbles, timezone_offset, schedule) ==
    [time |-> tme, hub_mode |-> hub_mode, game |-> game, hub_state |-> hub_state,
     max_kibbles |-> max_kibbles, timezone_offset |-> timezone_offset,
     schedule |-> schedule]

\* a one-element tuple (x,)
Tuple1(x) == [type |-> "tuple", items |-> <<x>>]

\* the exception passing through the statement of from_json that sets `where`
At(r, where) == [r EXCEPT !.at = where]

\* a ValueError swallowed, the offset left at 0
timezone_offset_or_zero(timezone_offset_str) ==
    LET f == float(timezone_offset_str)
        i == trunc(f.value)
    IN  IF f.kind = "raise" THEN Ok(0)
        ELSE IF i.kind = "raise" /\ i.exc = "ValueError" THEN Ok(0)
        ELSE i

\* timezone_offset = int(float(timezone_offset_str)), ValueError re-raised
timezone_offset_of(timezone_offset_str) ==
    LET f == float(timezone_offset_str)
        i == trunc(f.value)
    IN  IF f.kind = "raise" THEN IllegalValue("float", PyStr(timezone_offset_str))
        ELSE IF i.kind = "raise" /\ i.exc = "ValueError"
        THEN IllegalValue("float", PyStr(timezone_offset_str))
        ELSE i

\* setattr on a plain class: the attribute is rebound
Status_setattr_plain(self, name, value) ==
    [self |-> [self EXCEPT ![name] = value], ret |-> Ok(PyNone)]

\* status.<name> = value: the dataclass is frozen, its __setattr__ raises
\* FrozenInstanceError for every name and binds nothing
Status_setattr(self, name, value) ==
    [self |-> self, ret |-> Raise("FrozenInstanceError", "Status", PyStr(<<name>>))]

\* status.max_kibbles.value = value: MaxKibbles is a plain class
MaxKibbles_setattr_value(self, value) ==
    [self |-> [self EXCEPT !.value = value], ret |-> Ok(PyNone)]

Status_from_json(raw_body) ==
    LET tme == strptime(raw_body.time)
        hub_mode == HubMode_from_int_str(raw_body.hub_mode)
        prev_game == Game_from_int_str(raw_body.game_id_playing)
        next_game == Game_from_int_str(raw_body.game_id_queued)
        game == Tuple1(IF prev_game.value = next_game.value
                       THEN next_game.value
                       ELSE GameTransitioning(prev_game.value, next_game.value))
        hub_state == HubState(raw_body.hub_state)
        max_kibbles == MaxKibbles(raw_body.max_kibbles)
        timezone_offset == timezone_offset_of(raw_body.timezone)
        schedule == IF hub_mode.value = SCHEDULED
                    THEN Schedule_from_json(raw_body) ELSE Ok(PyNone)
    IN  IF tme.kind = "raise" THEN At(tme, "time")
        ELSE IF hub_mode.kind = "raise" THEN At(hub_mode, "hub_mode")
        ELSE IF prev_game.kind = "raise" THEN At(prev_game, "game_id_playing")
        ELSE IF next_game.kind = "raise" THEN At(next_game, "game_id_queued")
        ELSE IF hub_state.kind = "raise" THEN At(hub_state, "hub_state")
        ELSE IF timezone_offset.kind = "raise" THEN At(timezone_offset, "timezone")
        ELSE IF schedule.kind = "raise" THEN At(schedule, "schedule")
        ELSE Ok(Status(tme.value, hub_mode.value, game, hub_state.value, max_kibbles,
                       timezone_offset.value, schedule.value))

(***************************************************************************)
(* The property-based Status of src/src/hackerpet/__init__.py: it keeps    *)
(* the raw body and parses on every read of a property.                    *)
(***************************************************************************)
LazyStatus(body) == [_raw_body |-> body]

LazyStatus_time(self) == strptime(self._raw_body.time)

LazyStatus_hub_mode(self) == HubMode_from_int_str(self._raw_body.hub_mode)

LazyStatus_game(self) ==
    LET prev_game == Game_from_int_str(self._raw_body.game_id_playing)
        next_game == Game_from_int_str(self._raw_body.game_id_queued)
    IN  IF prev_game.kind = "raise" THEN prev_game
        ELSE IF next_game.kind = "raise" THEN next_game
        ELSE IF prev_game.value = next_game.value THEN Ok(next_game.value)
        ELSE Ok(GameTransitioning(prev_game.value, next_game.value))

LazyStatus_hub_state(self) == HubState(self._raw_body.hub_state)

LazyStatus_max_kibbles(self) == Ok(MaxKibbles(self._raw_body.max_kibbles))

LazyStatus_timezone_offset(self) == timezone_offset_of(self._raw_body.timezone)

LazyStatus_schedule(self) ==
    LET hub_mode == LazyStatus_hub_mode(self)
    IN  IF hub_mode.kind = "raise" THEN hub_mode
        ELSE IF hub_mode.value = SCHEDULED THEN Schedule_from_json(self._raw_body)
        ELSE Ok(PyNone)

\* the outcome of reading each of the seven properties once
LazyStatus_read(self) ==
    [time |-> LazyStatus_time(self), hub_mode |-> LazyStatus_hub_mode(self),
     game |-> LazyStatus_game(self), hub_state |-> LazyStatus_hub_state(self),
     max_kibbles |-> LazyStatus_max_kibbles(self),
     timezone_offset |-> LazyStatus_timezone_offset(self),
     schedule |-> LazyStatus_schedule(self)]

(***************************************************************************)
(* Hackerpet                                                               *)
(***************************************************************************)
Request(method, path, kind, body) ==
    [method |-> method, path |-> path, kind |-> kind, body |-> body]

\* set_timezone: the outcome and the requests issued
Hackerpet_set_timezone(tz_offset) ==
    IF "check_range" \notin OutOfRangeAttrs
    THEN [ret |-> Raise("AttributeError", "OutOfRange", PyStr(<<"check_range">>)),
          sent |-> <<>>]
    ELSE IF test_range(0 - 12, 13, tz_offset)
    THEN [ret |-> OutOfRange("timezone_offset", 0 - 12, 13, tz_offset), sent |-> <<>>]
    ELSE [ret |-> Ok(PyNone),
          sent |-> <<Request("POST", "/local-api/set_timezone", "json",
                             [timezone_offset |-> tz_offset])>>]

\* set_timezone of the single-module package (src/src/hackerpet/__init__.py),
\* which names the range check test_range
Hackerpet_set_timezone_pkg(tz_offset) ==
    IF "test_range" \notin OutOfRangeAttrs
    THEN [ret |-> Raise("AttributeError", "OutOfRange", PyStr(<<"test_range">>)),
          sent |-> <<>>]
    ELSE IF test_range(0 - 12, 13, tz_offset)
    THEN [ret |-> OutOfRange("timezone_offset", 0 - 12, 13, tz_offset), sent |-> <<>>]
    ELSE [ret |-> Ok(PyNone),
          sent |-> <<Request("POST", "/local-api/set_timezone", "json",
                             [timezone_offset |-> tz_offset])>>]

\* a Python set display {a, b}
PySet(elems) == [t |-> "set", elems |-> elems]

\* the value set_dst passes as json=: the display {"dst_on", 1 if dst_on else 0}
\* has a comma where a dict display has a colon
set_dst_json(dst_on) ==
    PySet({PyStr(<<"dst_on">>), PyInt(IF dst_on THEN 1 ELSE 0)})

\* the JSON encoder accepts dicts, lists, strings and numbers, not sets
JsonSerializable(v) == v.t \in {"dict", "list", "str", "int", "None"}

\* set_dst: the body is serialised when the request is built; a body that
\* cannot be serialised raises TypeError and nothing is sent
Hackerpet_set_dst(dst_on) ==
    LET body == set_dst_json(dst_on)
    IN  IF ~JsonSerializable(body)
        THEN [ret |-> Raise("TypeError", "set", PyStr(<<"not JSON serializable">>)),
              sent |-> <<>>]
        ELSE [ret |-> Ok(PyNone),
              sent |-> <<Request("POST", "/local-api/set_dst", "json", body)>>]

Hackerpet_set_schedule(schedule) ==
    [ret |-> Ok(PyNone),
     sent |-> <<Request("POST", "/local-api/set_schedule", "data",
                        Schedule_payload(schedule))>>]

\* a plain aiohttp session: it makes one attempt per request
ClientSession == [type |-> "ClientSession"]

ExponentialRetry(attempts, max_timeout) ==
    [attempts |-> attempts, max_timeout |-> max_timeout]

RetryClient(client_session, retry_options) ==
    [type |-> "RetryClient", client_session |-> client_session,
     retry_options |-> retry_options]

\* no Hackerpet has been constructed
NoSession == [type |-> "none"]

\* every session wrapped, a RetryClient too
Hackerpet_init_rewrap(sess) ==
    [session |-> RetryClient(sess, ExponentialRetry(3, 5))]

\* Hackerpet.__init__: a RetryClient is kept, any other session is wrapped
Hackerpet_init(sess) ==
    [session |-> IF sess.type = "RetryClient"
                 THEN sess
                 ELSE RetryClient(sess, ExponentialRetry(3, 5))]

\* the operations that only hand one request to the session
Setters == {"Hackerpet.set_game", "Hackerpet.set_max_kibbles", "Hackerpet.set_hub_mode"}

SessionOps == {"Hackerpet.status"} \cup Setters

\* the request an operation hands to self.session
Hackerpet_request(name, value) ==
    CASE name = "Hackerpet.status" ->
             Request("GET", "/local-api", "none", <<>>)
      [] name = "Hackerpet.set_game" ->
             Request("POST", "/local-api/set_game", "json", [game |-> value.value])
      [] name = "Hackerpet.set_max_kibbles" ->
             Request("POST", "/local-api/set_max_kibbles", "json",
                     [max_kibbles |-> value.value])
      [] name = "Hackerpet.set_hub_mode" ->
             Request("POST", "/local-api/set_hub_mode", "json",
                     [hub_mode |-> value.value])

\* the attempts the session's retry options allow
Attempts(sess) == sess.retry_options.attempts

\* response.json() returns as soon as the headers are in
BodyReady_headers(n) == n \in {"response", "response5xx", "body"}

\* response.json() returns once the whole body has been received
BodyReady(n) == n = "body"


(***************************************************************************)
(* Inputs                                                                  *)
(***************************************************************************)
IntStrAlphabet == {"0", "1", "2", "3", "9", "-", "+", ".", " ", "a", "sup2", "ar2"}

IntStrInputs == SeqsUpTo(IntStrAlphabet, MaxIntStrLen)

StatusFragments ==
    {YourHubIsWorking, OutOfFood, PlatterIsJammed, SingulatorIsJammed, DomeIsRemoved,
     <<"P", "l", "a", "t", "t", "e", "r">>, <<" ", "i", "s", " ", "j", "a", "m", "m", "e", "d">>,
     <<"O", "u", "t", " ", "o", "f", " ">>, <<"f", "o", "o", "d">>,
     <<".", " ">>,
     <<"e", "v", "e", "r", "y", "t", "h", "i", "n", "g", " ", "i", "s", " ",
       "g", "r", "e", "a", "t">>}

StatusInputs == {Concat(p) : p \in SeqsUpTo(StatusFragments, MaxStatusParts)}

\* the time field of the example response, and two that strptime rejects
TimeExample ==
    << <<"S", "a", "t">>, <<"J", "u", "l">>, <<"3", "0">>, <<"1", "5">>, <<"2", "3">>,
       <<"4", "1">>, <<"2", "0", "2", "2">> >>

TimeInputs ==
    {TimeExample,
     [TimeExample EXCEPT ![4] = <<"2", "5">>],
     [TimeExample EXCEPT ![2] = <<"F", "e", "b">>]}

HubModeInputs == {<<"1">>, <<"2">>, <<"3">>, <<"sup2">>}

PlayingInputs == {<<"9">>, <<"1", "0">>, <<"x">>}

QueuedInputs == {<<"9">>, <<"0", "9">>, <<"1", "0">>, <<"1", "2">>}

HubStateInputs == {Active, Standby, <<"a", "c", "t", "i", "v", "e">>}

MaxKibblesInputs == {PyStr(<<"0">>), PyInt(0), PyInt(5), PyNone}

TzExample == <<"-", "5", ".", "0", "0", "0", "0", "0", "0">>

TzFragments ==
    {<<"-">>, <<"+">>, <<"5">>, <<"1", "3">>, <<".", "0", "0", "0", "0", "0", "0">>,
     <<".", "9">>, <<"i", "n", "f">>, <<"n", "a", "n">>, <<"a", "b", "c">>, <<" ">>}

TzInputs == {Concat(p) : p \in SeqsUpTo(TzFragments, MaxTzParts)}

ScheduleWireFull ==
    [weekday_from |-> PyStr(<<"0", "9", ":", "0", "0">>),
     weekday_to |-> PyStr(<<"1", "6", ":", "0", "0">>),
     weekend_from |-> PyStr(<<"1", "0", ":", "3", "0">>),
     weekend_to |-> PyStr(<<"1", "8", ":", "0", "0">>)]

\* the schedule keys of a payload: absent, all four, or only the weekday pair
ScheduleWireInputs ==
    {<<>>, ScheduleWireFull,
     [weekday_from |-> ScheduleWireFull.weekday_from,
      weekday_to |-> ScheduleWireFull.weekday_to]}

\* the example response of the hub
ExamplePayload ==
    [timezone |-> TzExample,
     dst_on |-> <<"1">>,
     hub_mode |-> <<"1">>,
     weekend_from |-> PyStr(<<"0", "9", ":", "0", "0">>),
     weekend_to |-> PyStr(<<"1", "6", ":", "0", "0">>),
     weekday_from |-> PyStr(<<"0", "9", ":", "0", "0">>),
     weekday_to |-> PyStr(<<"1", "6", ":", "0", "0">>),
     status |-> YourHubIsWorking \o <<".">>,
     game_id_queued |-> <<"9">>,
     game_id_playing |-> <<"9">>,
     hub_state |-> Active,
     time |-> TimeExample,
     max_kibbles |-> PyStr(<<"0">>),
     kibbles_eaten_today |-> <<"0">>]

\* payloads with every required key; each value from its small set
PayloadProduct ==
    {r @@ s :
        r \in [time : TimeInputs, hub_mode : HubModeInputs,
               game_id_playing : PlayingInputs, game_id_queued : QueuedInputs,
               hub_state : HubStateInputs, max_kibbles : MaxKibblesInputs,
               timezone : {TzExample, <<"a", "b", "c">>, <<"i", "n", "f">>}],
        s \in ScheduleWireInputs}

\* the example response with each timezone wire string in turn
PayloadTzSweep == {[ExamplePayload EXCEPT !.timezone = z] : z \in TzInputs}

TimeInputsOfDay == {Time(9, 0, 0), Time(16, 5, 0), Time(23, 59, 30), Time(0, 30, 0)}

ScheduleInputs ==
    {Schedule(a, b, c, d) : a \in TimeInputsOfDay, b \in TimeInputsOfDay,
                            c \in TimeInputsOfDay, d \in TimeInputsOfDay}

TzOffsetInputs == (0 - 15)..16

\* payloads of which the Status is kept and assigned to
HeldPayloads ==
    {[ExamplePayload EXCEPT !.hub_mode = m, !.game_id_queued = q, !.max_kibbles = k] :
        m \in {<<"1">>, <<"2">>, <<"sup2">>}, q \in {<<"9">>, <<"1", "0">>},
        k \in MaxKibblesInputs}

\* values assigned to the fields of a Status already built
AssignInputs == {PyNone, PyInt(7)}

\* payloads parsed after a Status has been built
LaterPayloads ==
    {ExamplePayload, [ExamplePayload EXCEPT !.max_kibbles = PyStr(<<"5">>)],
     [ExamplePayload EXCEPT !.hub_mode = <<"sup2">>]}

\* what Status.from_json makes of each of them
LaterOutcomes == [raw_body \in LaterPayloads |-> Status_from_json(raw_body)]

\* the sessions a Hackerpet is constructed from
SessionInputs ==
    {ClientSession}
        \cup {RetryClient(ClientSession, ExponentialRetry(n, 5)) : n \in 1..MaxClientAttempts}

\* the bodies the hub answers GET /local-api with
ResponseBodies == {ExamplePayload, [ExamplePayload EXCEPT !.hub_mode = <<"sup2">>]}

SetterInputs ==
    [op : {"Hackerpet.set_game"}, value : {GameMember(0), GameMember(9)}]
        \cup [op : {"Hackerpet.set_max_kibbles"}, value : {MaxKibbles(PyInt(5)), MaxKibbles(PyNone)}]
        \cup [op : {"Hackerpet.set_hub_mode"}, value : {HubModeMember(1), SCHEDULED}]

RangeInputs ==
    [name : {"timezone_offset"}, lower : (0 - 2)..2, upper : (0 - 2)..2,
     found : (0 - 4)..4]

(***************************************************************************)
(* The state machine                                                       *)
(***************************************************************************)
Init ==
    /\ ret = Pending
    /\ sent = <<>>
    /\ last = Pending
    /\ pc = "call" /\ attempt = 0 /\ net = "idle" /\ parsed = 0
    /\ \/ /\ session = NoSession
          /\ \/ op = "HubMode.from_int_str" /\ arg \in IntStrInputs
             \/ op = "Game.from_int_str" /\ arg \in IntStrInputs
             \/ op = "HubStatus.from_status" /\ arg \in StatusInputs
             \/ op = "Status.from_json" /\ (arg \in PayloadProduct \/ arg \in PayloadTzSweep)
             \/ op = "Schedule.payload" /\ arg \in ScheduleInputs
             \/ op = "Schedule.payload+from_json" /\ arg \in ScheduleInputs
             \/ op = "Hackerpet.set_timezone" /\ arg \in TzOffsetInputs
             \/ op = "Hackerpet.set_schedule" /\ arg \in ScheduleInputs
             \/ op = "OutOfRange.test_range" /\ arg \in RangeInputs
             \/ op = "Hackerpet.set_dst" /\ arg \in BOOLEAN
             \/ op = "pkg.Hackerpet.set_timezone" /\ arg \in TzOffsetInputs
             \/ op = "pkg.Status" /\ (arg \in PayloadProduct \/ arg \in PayloadTzSweep)
             \/ op = "Status.from_json+setattr" /\ arg \in HeldPayloads
       \/ /\ op = "Hackerpet.status" /\ arg \in [session : SessionInputs]
          /\ session = Hackerpet_init(arg.session).session
       \/ /\ \E i \in SetterInputs :
                 op = i.op /\ arg \in [session : SessionInputs, value : {i.value}]
          /\ session = Hackerpet_init(arg.session).session

CallHubModeFromIntStr ==
    /\ op = "HubMode.from_int_str" /\ ret = Pending
    /\ ret' = HubMode_from_int_str(arg)
    /\ UNCHANGED <<op, arg, sent, last, netvars>>

CallGameFromIntStr ==
    /\ op = "Game.from_int_str" /\ ret = Pending
    /\ ret' = Game_from_int_str(arg)
    /\ UNCHANGED <<op, arg, sent, last, netvars>>

CallHubStatusFromStatus ==
    /\ op = "HubStatus.from_status" /\ ret = Pending
    /\ ret' = HubStatus_from_status(arg)
    /\ UNCHANGED <<op, arg, sent, last, netvars>>

CallStatusFromJson ==
    /\ op = "Status.from_json" /\ ret = Pending
    /\ ret' = Status_from_json(arg)
    /\ UNCHANGED <<op, arg, sent, last, netvars>>

CallSchedulePayload ==
    /\ op = "Schedule.payload" /\ ret = Pending
    /\ ret' = Ok(Schedule_payload(arg))
    /\ UNCHANGED <<op, arg, sent, last, netvars>>

\* payload(), the text parsed back, then Schedule.from_json
CallSchedulePayloadFromJson ==
    /\ op = "Schedule.payload+from_json" /\ ret = Pending
    /\ ret' = Schedule_from_json(json_loads(Schedule_payload(arg)))
    /\ UNCHANGED <<op, arg, sent, last, netvars>>

CallSetTimezone ==
    /\ op = "Hackerpet.set_timezone" /\ ret = Pending
    /\ LET r == Hackerpet_set_timezone(arg)
       IN  ret' = r.ret /\ sent' = sent \o r.sent
    /\ UNCHANGED <<op, arg, last, netvars>>

CallSetSchedule ==
    /\ op = "Hackerpet.set_schedule" /\ ret = Pending
    /\ LET r == Hackerpet_set_schedule(arg)
       IN  ret' = r.ret /\ sent' = sent \o r.sent
    /\ UNCHANGED <<op, arg, last, netvars>>

CallTestRange ==
    /\ op = "OutOfRange.test_range" /\ ret = Pending
    /\ ret' = OutOfRange_test_range(arg.name, arg.lower, arg.upper, arg.found)
    /\ UNCHANGED <<op, arg, sent, last, netvars>>

CallSetDst ==
    /\ op = "Hackerpet.set_dst" /\ ret = Pending
    /\ LET r == Hackerpet_set_dst(arg)
       IN  ret' = r.ret /\ sent' = sent \o r.sent
    /\ UNCHANGED <<op, arg, last, netvars>>

CallSetTimezonePkg ==
    /\ op = "pkg.Hackerpet.set_timezone" /\ ret = Pending
    /\ LET r == Hackerpet_set_timezone_pkg(arg)
       IN  ret' = r.ret /\ sent' = sent \o r.sent
    /\ UNCHANGED <<op, arg, last, netvars>>

\* construct the lazy Status and read its seven properties
CallLazyStatus ==
    /\ op = "pkg.Status" /\ ret = Pending
    /\ ret' = Ok(LazyStatus_read(LazyStatus(arg)))
    /\ UNCHANGED <<op, arg, sent, last, netvars>>

\* Status.from_json, the Status kept by the caller
CallStatusFromJsonHeld ==
    /\ op = "Status.from_json+setattr" /\ ret = Pending
    /\ ret' = Status_from_json(arg)
    /\ UNCHANGED <<op, arg, sent, last, netvars>>

\* status.<name> = value on the Status that from_json returned
AssignStatusField(name, value) ==
    /\ op = "Status.from_json+setattr" /\ ret.kind = "ok"
    /\ LET r == Status_setattr(ret.value, name, value)
       IN  ret' = Ok(r.self) /\ last' = r.ret
    /\ UNCHANGED <<op, arg, sent, netvars>>

\* status.max_kibbles.value = value
AssignMaxKibblesValue(value) ==
    /\ op = "Status.from_json+setattr" /\ ret.kind = "ok"
    /\ LET r == MaxKibbles_setattr_value(ret.value.max_kibbles, value)
       IN  ret' = Ok([ret.value EXCEPT !.max_kibbles = r.self]) /\ last' = r.ret
    /\ UNCHANGED <<op, arg, sent, netvars>>

\* a later Status.from_json, on another payload, while the first Status is held
LaterFromJson(raw_body) ==
    /\ op = "Status.from_json+setattr" /\ ret.kind = "ok"
    /\ last' = LaterOutcomes[raw_body]
    /\ UNCHANGED <<op, arg, ret, sent, netvars>>

\* the operation hands its request to self.session.get / self.session.post
EnterRequest ==
    /\ op \in SessionOps /\ pc = "call"
    /\ sent' = Append(sent, Hackerpet_request(op, IF op \in Setters THEN arg.value ELSE PyNone))
    /\ pc' = "request"
    /\ UNCHANGED <<op, arg, ret, last, session, attempt, net, parsed>>

\* the session puts an attempt on the wire
SendAttempt ==
    /\ pc = "request" /\ net = "idle"
    /\ attempt' = attempt + 1
    /\ net' = "inflight"
    /\ UNCHANGED <<op, arg, ret, sent, last, session, pc, parsed>>

\* the hub answers the attempt: the status line and headers arrive
HubResponds ==
    /\ net = "inflight"
    /\ net' \in {"response", "response5xx"}
    /\ UNCHANGED <<op, arg, ret, sent, last, session, pc, attempt, parsed>>

\* the attempt fails: connection refused or reset, timeout
AttemptFails ==
    /\ net = "inflight"
    /\ net' = "failed"
    /\ UNCHANGED <<op, arg, ret, sent, last, session, pc, attempt, parsed>>

\* the session retries a failed attempt or a server error while its retry
\* options allow another attempt
Retry ==
    /\ pc = "request" /\ net \in {"failed", "response5xx"}
    /\ attempt < Attempts(session)
    /\ net' = "idle"
    /\ UNCHANGED <<op, arg, ret, sent, last, session, pc, attempt, parsed>>

\* the session gives up: the failure of the attempt is raised to the caller
RequestRaises ==
    /\ pc = "request" /\ net = "failed"
    /\ ret' = Raise("ClientError", "session", PyStr(<<"request failed">>))
    /\ pc' = "done"
    /\ UNCHANGED <<op, arg, sent, last, session, attempt, net, parsed>>

\* the session returns the response: the async with block is entered
ResponseReturned ==
    /\ pc = "request" /\ net \in {"response", "response5xx"}
    /\ pc' = "entered"
    /\ UNCHANGED <<op, arg, ret, sent, last, session, attempt, net, parsed>>

\* the rest of the body of the response arrives
BodyReceived ==
    /\ pc = "entered" /\ net \in {"response", "response5xx"}
    /\ net' = "body"
    /\ UNCHANGED <<op, arg, ret, sent, last, session, pc, attempt, parsed>>

\* the connection breaks while the body is read
BodyFails ==
    /\ pc = "entered" /\ net \in {"response", "response5xx"}
    /\ net' = "bodyfailed"
    /\ UNCHANGED <<op, arg, ret, sent, last, session, pc, attempt, parsed>>

\* status(): await response.json() has returned raw_body, Status.from_json
\* parses it and its outcome is the outcome of status()
StatusParses(raw_body) ==
    /\ op = "Hackerpet.status" /\ pc = "entered" /\ BodyReady(net)
    /\ parsed' = parsed + 1
    /\ ret' = Status_from_json(raw_body)
    /\ pc' = "done"
    /\ UNCHANGED <<op, arg, sent, last, session, attempt, net>>

\* status(): the body received is not JSON, response.json() raises
StatusJsonRaises ==
    /\ op = "Hackerpet.status" /\ pc = "entered" /\ BodyReady(net)
    /\ ret' = Raise("JSONDecodeError", "json", PyStr(<<"not JSON">>))
    /\ pc' = "done"
    /\ UNCHANGED <<op, arg, sent, last, session, attempt, net, parsed>>

\* status(): reading the body failed, response.json() raises
StatusReadRaises ==
    /\ op = "Hackerpet.status" /\ pc = "entered" /\ net = "bodyfailed"
    /\ ret' = Raise("ClientPayloadError", "response", PyStr(<<"body incomplete">>))
    /\ pc' = "done"
    /\ UNCHANGED <<op, arg, sent, last, session, attempt, net, parsed>>

\* a setter: the block is `pass`, the response is dropped unread
SetterReturns ==
    /\ op \in Setters /\ pc = "entered"
    /\ ret' = Ok(PyNone)
    /\ pc' = "done"
    /\ UNCHANGED <<op, arg, sent, last, session, attempt, net, parsed>>

Next ==
    \/ CallHubModeFromIntStr
    \/ CallGameFromIntStr
    \/ CallHubStatusFromStatus
    \/ CallStatusFromJson
    \/ CallSchedulePayload
    \/ CallSchedulePayloadFromJson
    \/ CallSetTimezone
    \/ CallSetSchedule
    \/ CallTestRange
    \/ CallSetDst
    \/ CallSetTimezonePkg
    \/ CallLazyStatus
    \/ CallStatusFromJsonHeld
    \/ \E name \in StatusFields, value \in AssignInputs : AssignStatusField(name, value)
    \/ \E value \in AssignInputs : AssignMaxKibblesValue(value)
    \/ \E raw_body \in LaterPayloads : LaterFromJson(raw_body)
    \/ EnterRequest
    \/ SendAttempt
    \/ HubResponds
    \/ AttemptFails
    \/ Retry
    \/ RequestRaises
    \/ ResponseReturned
    \/ BodyReceived
    \/ BodyFails
    \/ \E raw_body \in ResponseBodies : StatusParses(raw_body)
    \/ StatusJsonRaises
    \/ StatusReadRaises
    \/ SetterReturns

Spec == Init /\ [][Next]_vars

(***************************************************************************)
(* Claims                                                                  *)
(***************************************************************************)
Called(name) == op = name /\ ret # Pending

Returned(name) == op = name /\ ret.kind = "ok"

IsNone(x) == "t" \in DOMAIN x /\ x.t = "None"

HasType(x, type) == "type" \in DOMAIN x /\ x.type = type

Least(S) == CHOOSE x \in S : \A y \in S : x <= y

\* C1: when both game ids parse to a Game, the game field of the Status that
\* Status.from_json builds is the Game itself if the two are equal, and a
\* GameTransitioning(prev = playing, next = queued, value = next's value) if
\* they differ.
C1_GameField ==
    Returned("Status.from_json") =>
        LET playing == Game_from_int_str(arg.game_id_playing).value
            queued == Game_from_int_str(arg.game_id_queued).value
            game == ret.value.game
        IN  IF playing.value = queued.value
            THEN HasType(game, "Game") /\ game = queued
            ELSE /\ HasType(game, "GameTransitioning")
                 /\ game.prev = playing
                 /\ game.next = queued
                 /\ game.value = queued.value

C2_ParseOrder ==
    <<"time", "hub_mode", "game_id_playing", "game_id_queued", "hub_state",
      "timezone", "schedule">>

\* what parsing one wire field alone gives
C2_FieldOutcome(p, f) ==
    CASE f = "time" -> strptime(p.time)
      [] f = "hub_mode" -> HubMode_from_int_str(p.hub_mode)
      [] f = "game_id_playing" -> Game_from_int_str(p.game_id_playing)
      [] f = "game_id_queued" -> Game_from_int_str(p.game_id_queued)
      [] f = "hub_state" -> HubState(p.hub_state)
      [] f = "timezone" ->
            LET x == float(p.timezone)
            IN  IF x.kind = "raise" THEN x ELSE trunc(x.value)
      [] f = "schedule" ->
            LET m == HubMode_from_int_str(p.hub_mode)
            IN  IF m.kind = "ok" /\ m.value = SCHEDULED
                THEN Schedule_from_json(p) ELSE Ok(PyNone)

C3_OutOfRangeNoRequest ==
    (Called("Hackerpet.set_timezone") /\ arg \notin (0 - 12)..13) =>
        ret.kind = "raise" /\ ret.exc = "OutOfRange" /\ sent = <<>>

\* "HH:MM" of a time
HHMM(tme) == TwoDigits(tme.hour) \o <<":">> \o TwoDigits(tme.minute)

\* C4: Schedule.payload() is the compact JSON object with exactly the keys
\* weekday_from, weekday_to, weekend_from, weekend_to, each value the
\* zero-padded "HH:MM" of the corresponding time.
C4_PayloadIsHHMM ==
    Returned("Schedule.payload") =>
        ret.value =
            <<Punct("{"),
              JKey("weekday_from"), Punct(":"), JStr(HHMM(arg.weekday_from)), Punct(","),
              JKey("weekday_to"), Punct(":"), JStr(HHMM(arg.weekday_to)), Punct(","),
              JKey("weekend_from"), Punct(":"), JStr(HHMM(arg.weekend_from)), Punct(","),
              JKey("weekend_to"), Punct(":"), JStr(HHMM(arg.weekend_to)),
              Punct("}")>>

\* v is the time-of-day tme: the time itself or its "HH:MM" text
SameTimeOfDay(v, tme) ==
    \/ "t" \in DOMAIN v /\ v.t = "time" /\ v = tme
    \/ "t" \in DOMAIN v /\ v.t = "str" /\ v.s = HHMM(tme)

MinuteGranularity(schedule) ==
    /\ schedule.weekday_from.second = 0 /\ schedule.weekday_to.second = 0
    /\ schedule.weekend_from.second = 0 /\ schedule.weekend_to.second = 0

\* C5: for a Schedule whose times have minute granularity, payload() parsed
\* back with Schedule.from_json gives the same four time-of-day values.
C5_RoundTrip ==
    (Called("Schedule.payload+from_json") /\ MinuteGranularity(arg)) =>
        /\ ret.kind = "ok"
        /\ SameTimeOfDay(ret.value.weekday_from, arg.weekday_from)
        /\ SameTimeOfDay(ret.value.weekday_to, arg.weekday_to)
        /\ SameTimeOfDay(ret.value.weekend_from, arg.weekend_from)
        /\ SameTimeOfDay(ret.value.weekend_to, arg.weekend_to)

\* C6: in every Status from_json returns, schedule is None when hub_mode is
\* not SCHEDULED, and the Schedule of the payload's weekday_from, weekday_to,
\* weekend_from and weekend_to when it is.
C6_ScheduleIffScheduled ==
    Returned("Status.from_json") =>
        IF ret.value.hub_mode = SCHEDULED
        THEN /\ HasType(ret.value.schedule, "Schedule")
             /\ ret.value.schedule.weekday_from = arg.weekday_from
             /\ ret.value.schedule.weekday_to = arg.weekday_to
             /\ ret.value.schedule.weekend_from = arg.weekend_from
             /\ ret.value.schedule.weekend_to = arg.weekend_to
        ELSE IsNone(ret.value.schedule)

\* C6 witness: a SCHEDULED payload with four distinct schedule values returned
C6_Witness ==
    /\ Returned("Status.from_json")
    /\ ret.value.hub_mode = SCHEDULED
    /\ Cardinality({arg.weekday_from, arg.weekday_to,
                    arg.weekend_from, arg.weekend_to}) = 4

\* C7: the example payload parses to hub_mode STAY_ON, game GAME9, hub_state
\* ACTIVE, timezone_offset -5, max_kibbles unlimited (value 0), schedule None.
C7_ExamplePayload ==
    (Called("Status.from_json") /\ arg = ExamplePayload) =>
        /\ ret.kind = "ok"
        /\ ret.value.hub_mode = HubModeMember(1)
        /\ HasType(ret.value.game, "Game") /\ ret.value.game = GameMember(9)
        /\ ret.value.hub_state = HubStateMember("ACTIVE", Active)
        /\ ret.value.timezone_offset = 0 - 5
        /\ ret.value.max_kibbles.value = PyInt(0)
        /\ MaxKibbles_str_no_limit(ret.value.max_kibbles)
        /\ IsNone(ret.value.schedule)

\* s consists only of decimal digits
AllDecimal(s) == s # <<>> /\ \A i \in 1..Len(s) : s[i] \in DecimalChars

\* the outcome C8 states for a parser of the enumeration cls with members 0..max
C8_Expected(cls, max, s, r) ==
    IF AllDecimal(s) /\ DecimalValue(s) \in 0..max
    THEN r.kind = "ok" /\ r.value.type = cls /\ r.value.value = DecimalValue(s)
    ELSE /\ r.kind = "raise" /\ r.exc = "IllegalValue" /\ r.cls = cls
         /\ r.value \in {PyStr(s)} \cup
                (IF AllDecimal(s) THEN {PyInt(DecimalValue(s))} ELSE {})

\* C8: HubMode.from_int_str(s) succeeds, with the member of that value, iff s
\* is all decimal digits with value in {0,1,2}; Game.from_int_str(s) iff the
\* value is in [0,11]; every other string fails with IllegalValue naming the
\* type and the value.
C8_NumericParsers ==
    /\ Called("HubMode.from_int_str") => C8_Expected("HubMode", 2, arg, ret)
    /\ Called("Game.from_int_str") => C8_Expected("Game", 11, arg, ret)

C9_Table ==
    <<[text |-> YourHubIsWorking, variant |-> "PLAYING"],
      [text |-> OutOfFood, variant |-> "EMPTY"],
      [text |-> PlatterIsJammed, variant |-> "PLATTER_JAMMED"],
      [text |-> SingulatorIsJammed, variant |-> "POD_JAMMED"],
      [text |-> DomeIsRemoved, variant |-> "DOME_REMOVED"]>>

C9_Hits(s) == {i \in 1..Len(C9_Table) : Contains(s, C9_Table[i].text)}

C10_TimezoneOffset ==
    (Called("Status.from_json") /\ (ret.kind = "ok" \/ ret.at \in {"timezone", "schedule"})) =>
        LET x == float(arg.timezone)
        IN  IF x.kind = "ok" /\ x.value.fk = "finite"
            THEN /\ ~(ret.kind = "raise" /\ ret.at = "timezone")
                 /\ ret.kind = "ok" => ret.value.timezone_offset = trunc(x.value).value
            ELSE ret = At(IllegalValue("float", PyStr(arg.timezone)), "timezone")

\* C11: OutOfRange.test_range raises OutOfRange iff found < lower or
\* found > upper; found = lower and found = upper pass, and a passing check
\* returns None and does nothing else.
C11_TestRangeInclusive ==
    Called("OutOfRange.test_range") =>
        /\ sent = <<>>
        /\ IF arg.found < arg.lower \/ arg.found > arg.upper
           THEN /\ ret.kind = "raise" /\ ret.exc = "OutOfRange"
                /\ ret.cls = arg.name /\ ret.value = PyInt(arg.found)
                /\ ret.lower = arg.lower /\ ret.upper = arg.upper
           ELSE ret = Ok(PyNone)

\* C11 witness: a value on a bound of a proper range passed
C11_Witness ==
    /\ Called("OutOfRange.test_range")
    /\ arg.lower < arg.upper /\ arg.found = arg.upper
    /\ ret = Ok(PyNone)

\* C13: set_dst(dst_on) issues one POST to /local-api/set_dst whose JSON body
\* is the object with the single field dst_on, 1 for true and 0 for false.
C13_SetDstBody ==
    Called("Hackerpet.set_dst") =>
        /\ ret = Ok(PyNone)
        /\ Len(sent) = 1
        /\ sent[1] = Request("POST", "/local-api/set_dst", "json",
                             [dst_on |-> IF arg THEN 1 ELSE 0])

\* C15: set_timezone with an offset in [-12, 13] passes validation and then
\* issues one POST to /local-api/set_timezone whose JSON body has
\* timezone_offset equal to the offset.
C15_InRangeIsSent ==
    (Called("Hackerpet.set_timezone") /\ arg \in (0 - 12)..13) =>
        /\ ret = Ok(PyNone)
        /\ sent = <<Request("POST", "/local-api/set_timezone", "json",
                            [timezone_offset |-> arg])>>

\* C16: for every payload each property read from the lazy Status equals the
\* field of the eager Status built by Status.from_json, and the eager
\* construction fails exactly when reading some lazy property fails.
C16_EagerLazyAgree ==
    Called("pkg.Status") =>
        LET eager == Status_from_json(arg)
            lazy == ret.value
        IN  /\ eager.kind = "raise" <=> \E f \in StatusFields : lazy[f].kind = "raise"
            /\ eager.kind = "ok" =>
                   \A f \in StatusFields : lazy[f] = Ok(eager.value[f])

\* an assignment to one of the seven fields of the Status held in ret
AssignsStatusField ==
    \E name \in StatusFields, value \in AssignInputs : AssignStatusField(name, value)

\* an assignment to an attribute of the object a field refers to
AssignsNested == \E value \in AssignInputs : AssignMaxKibblesValue(value)

\* a step taken while a Status is held: a field assignment is refused and
\* changes no field, and every step that is not an assignment to an attribute
\* of an object a field refers to leaves the Status as it is
C12_Step ==
    (op = "Status.from_json+setattr" /\ ret # Pending /\ ret.kind = "ok") =>
        /\ AssignsStatusField =>
               /\ last'.kind = "raise" /\ last'.exc = "FrozenInstanceError"
               /\ \A f \in StatusFields : ret'.value[f] = ret.value[f]
        /\ AssignsNested \/ ret' = ret

\* C12: once Status.from_json has returned, an assignment to any of the seven
\* fields of the Status is refused with FrozenInstanceError and leaves all
\* seven fields as they were, and a later Status.from_json on another payload
\* leaves them as they were too: the fields stay those derived from the
\* payload of the call that built the Status.
C12_StatusImmutable == [][C12_Step]_vars

\* C12 witness: an assignment to a field was refused and the Status is still
\* the one built from the payload
C12_Witness ==
    /\ Returned("Status.from_json+setattr")
    /\ last.kind = "raise" /\ last.exc = "FrozenInstanceError"
    /\ last.value = PyStr(<<"max_kibbles">>)
    /\ ret = Status_from_json(arg)

\* C14: in status() Status.from_json is called at most once, only when the
\* response to GET /local-api has been received in full, and not at all when
\* the request failed or the body could not be read.
C14_ParseAfterResponse ==
    op = "Hackerpet.status" =>
        /\ parsed <= 1
        /\ parsed = 1 =>
               /\ net = "body" /\ pc = "done"
               /\ sent = <<Request("GET", "/local-api", "none", <<>>)>>
        /\ net \in {"idle", "inflight", "failed", "bodyfailed"} => parsed = 0
        /\ (ret # Pending /\ ret.kind = "raise"
                /\ ret.exc \in {"ClientError", "ClientPayloadError", "JSONDecodeError"}) =>
               parsed = 0

\* C14 witness: the first attempt failed, the second was answered in full and
\* its body was parsed into a Status
C14_Witness ==
    /\ op = "Hackerpet.status" /\ pc = "done"
    /\ attempt = 2 /\ net = "body" /\ parsed = 1
    /\ ret.kind = "ok"

\* steps left to an operation on a session, at most: three per attempt still
\* allowed, then the response, its body, and the return
Rank ==
    CASE pc = "call" -> 4 + 3 * Attempts(session)
      [] pc = "request" ->
             3 + 3 * (Attempts(session) - attempt)
               + (CASE net = "inflight" -> 2
                    [] net \in {"failed", "response", "response5xx"} -> 1
                    [] OTHER -> 0)
      [] pc = "entered" -> IF net \in {"response", "response5xx"} THEN 2 ELSE 1
      [] OTHER -> 0

\* the session of the Hackerpet and the attempts made, against the session
\* it was constructed from
C17_Session ==
    IF arg.session.type = "RetryClient"
    THEN /\ session = arg.session
         /\ attempt <= arg.session.retry_options.attempts
    ELSE /\ session.type = "RetryClient" /\ session.client_session = arg.session
         /\ attempt <= 3

\* an operation that has not ended can take a step
C17_Progress == (op \in SessionOps /\ pc # "done") => ENABLED Next

\* a step of an operation keeps the session and the bound on the attempts,
\* brings the operation closer to its end, and ends it exactly when it
\* returns or raises
C17_Step ==
    op \in SessionOps =>
        /\ C17_Session /\ C17_Session'
        /\ Rank' < Rank /\ Rank' >= 0
        /\ (pc' = "done") = (ret' # Pending)

\* C17: an operation of a Hackerpet constructed from a plain session makes at
\* most 3 request attempts, one constructed from a RetryClient keeps that
\* client and its retry options as they are and makes at most the attempts
\* they allow; every step of an operation brings it closer to its end (Rank
\* decreases and is never negative) and an operation that has not ended can
\* always take a step, so every operation terminates.
C17_BoundedAttempts == []C17_Progress /\ [][C17_Step]_vars

\* C17 witness: on a plain session three attempts failed and the operation
\* ended with the failure
C17_Witness ==
    /\ op \in SessionOps /\ arg.session = ClientSession
    /\ attempt = 3 /\ pc = "done"
    /\ ret.kind = "raise" /\ ret.exc = "ClientError"

====
